---------------------------- MODULE Spec2Model ----------------------------
(***************************************************************************)
(* CleanShare: the URL cleaner (src/src/cleaner.rs), its rule set          *)
(* (src/src/rules.rs) and the batch driver (src/src/main.rs).              *)
(*                                                                         *)
(* Rust strings are TLA+ strings; TLC evaluates Len, Head, Tail, SubSeq    *)
(* and \o on them.  The byte strings that percent-decoding produces are    *)
(* sequences of tokens: a one-character string for an ASCII byte and       *)
(* "xHH" for any other byte.  The only non-ASCII scalar value of the model *)
(* is U+FFFD, written with the character Replacement.                      *)
(***************************************************************************)
EXTENDS Integers, Sequences, FiniteSets, TLC

VARIABLES cli, pc, rules, inputs, i, outputs, line, raw, depth, last, stdout, status

vars == <<cli, pc, rules, inputs, i, outputs, line, raw, depth, last, stdout, status>>

(***************************************************************************)
(* Characters and strings                                                  *)
(***************************************************************************)

\* Stands for the backtick (0x60), which a TLA+ string literal cannot hold.
Backtick == "\f"

\* Printable ASCII, 0x20 .. 0x7E, in code order: position p holds code 31 + p.
Ascii == " !\"#$%&'()*+,-./0123456789:;<=>?@ABCDEFGHIJKLMNOPQRSTUVWXYZ[\\]^_"
             \o Backtick \o "abcdefghijklmnopqrstuvwxyz{|}~"

UpperAlpha == "ABCDEFGHIJKLMNOPQRSTUVWXYZ"

LowerAlpha == "abcdefghijklmnopqrstuvwxyz"

Digits == "0123456789"

HexUpper == "0123456789ABCDEF"

HexLower == "0123456789abcdef"

\* Stands for U+FFFD REPLACEMENT CHARACTER (three bytes in UTF-8: EF BF BD).
Replacement == "\r"

\* F(x), with x evaluated once.
Bind(x, F(_)) == CHOOSE r \in {F(v) : v \in {x}} : TRUE

SetMin(S) == CHOOSE k \in S : \A m \in S : k <= m

SetMax(S) == CHOOSE k \in S : \A m \in S : k >= m

At(s, k) == SubSeq(s, k, k)

CharsOf(s) == {At(s, k) : k \in 1..Len(s)}

\* The position of the first character of s that lies in set, or 0.
FirstOf(s, set) ==
    Bind({k \in 1..Len(s) : At(s, k) \in set},
         LAMBDA hits : IF hits = {} THEN 0 ELSE SetMin(hits))

\* str::find: the position of the first c in s, or 0.
IndexOf(c, s) == FirstOf(s, {c})

Contains(s, c) == \E k \in 1..Len(s) : At(s, k) = c

\* s[from ..], empty when from is past the end.
Drop(s, from) == IF from > Len(s) THEN "" ELSE SubSeq(s, from, Len(s))

\* s[.. upto], empty when upto is 0.
Take(s, upto) == IF upto <= 0 THEN "" ELSE SubSeq(s, 1, upto)

StartsWith(s, p) == Len(s) >= Len(p) /\ Take(s, Len(p)) = p

\* The lower-case letter of each upper-case letter, and conversely.
LowerOf == [c \in CharsOf(UpperAlpha) |-> At(LowerAlpha, IndexOf(c, UpperAlpha))]

UpperOf == [c \in CharsOf(LowerAlpha) |-> At(UpperAlpha, IndexOf(c, LowerAlpha))]

\* u8::to_ascii_lowercase
LowerChar(c) == IF c \in DOMAIN LowerOf THEN LowerOf[c] ELSE c

\* u8::to_ascii_uppercase
UpperChar(c) == IF c \in DOMAIN UpperOf THEN UpperOf[c] ELSE c

\* The strings ss[lo], ..., ss[hi] in one string.
RECURSIVE ConcatRange(_, _, _)
ConcatRange(ss, lo, hi) ==
    IF lo > hi THEN ""
    ELSE IF lo = hi THEN ss[lo]
    ELSE ConcatRange(ss, lo, (lo + hi) \div 2) \o ConcatRange(ss, (lo + hi) \div 2 + 1, hi)

\* The strings of ss in one string.
ConcatStrings(ss) == ConcatRange(ss, 1, Len(ss))

\* The string of f(c) for the characters c of s, in order.
MapChars(s, f(_)) ==
    Bind(s, LAMBDA t : Bind([k \in 1..Len(t) |-> f(At(t, k))],
                            LAMBDA ss : ConcatStrings(ss)))

\* str::to_ascii_lowercase
ToAsciiLowercase(s) == MapChars(s, LowerChar)

\* str::eq_ignore_ascii_case
EqIgnoreAsciiCase(a, b) == ToAsciiLowercase(a) = ToAsciiLowercase(b)

\* str::len: the length of s in bytes of UTF-8.
ByteLen(s) == Len(s) + 2 * Cardinality({k \in 1..Len(s) : At(s, k) = Replacement})

\* Option<String>::None
None == [some |-> FALSE, v |-> ""]

\* Option<bool>::None
NoBool == [some |-> FALSE, v |-> FALSE]

\* None for an optional sequence of lines.
NoLines == [some |-> FALSE, v |-> <<>>]

Some(x) == [some |-> TRUE, v |-> x]

\* str::trim_start_matches(c)
TrimStartMatches(s, c) ==
    Bind({k \in 1..Len(s) : At(s, k) # c},
         LAMBDA keep : IF keep = {} THEN "" ELSE Drop(s, SetMin(keep)))

\* str::trim_end_matches(c)
TrimEndMatches(s, c) ==
    Bind({k \in 1..Len(s) : At(s, k) # c},
         LAMBDA keep : IF keep = {} THEN "" ELSE Take(s, SetMax(keep)))

WhiteSpace == {" ", "\t", "\n"}

\* str::trim: leading and trailing white space removed.
Trim(s) ==
    Bind({k \in 1..Len(s) : At(s, k) \notin WhiteSpace},
         LAMBDA keep : IF keep = {} THEN "" ELSE SubSeq(s, SetMin(keep), SetMax(keep)))

\* s cut before its first character in set: what precedes it, and the rest from
\* that character on (empty when there is none).
CutBefore(s, set) ==
    Bind(FirstOf(s, set),
         LAMBDA k : IF k = 0 THEN <<s, "">> ELSE <<Take(s, k - 1), Drop(s, k)>>)

(***************************************************************************)
(* percent_encoding and form_urlencoded                                    *)
(***************************************************************************)

IsHex(c) == Contains(HexUpper, c) \/ Contains(HexLower, c)

HexVal(c) == IndexOf(UpperChar(c), HexUpper) - 1

HexPair(n) == At(HexUpper, (n \div 16) + 1) \o At(HexUpper, (n % 16) + 1)

\* The byte with value n as a token: the character itself for printable ASCII.
ByteToken(n) == IF n >= 32 /\ n <= 126 THEN At(Ascii, n - 31) ELSE "x" \o HexPair(n)

IsAsciiToken(t) == Len(t) = 1

\* A %HH starts at position k of s.
IsEscapeAt(s, k) ==
    k >= 1 /\ k + 2 <= Len(s) /\ At(s, k) = "%" /\ IsHex(At(s, k + 1)) /\ IsHex(At(s, k + 2))

\* percent_encoding::percent_decode_str: every %HH becomes the byte HH, the rest
\* is copied.  (Two %HH never overlap: a hex digit is not a '%'.)
PercentDecodeStr(s) ==
    SelectSeq([k \in 1..Len(s) |->
                  IF IsEscapeAt(s, k)
                  THEN ByteToken(16 * HexVal(At(s, k + 1)) + HexVal(At(s, k + 2)))
                  ELSE IF IsEscapeAt(s, k - 1) \/ IsEscapeAt(s, k - 2) THEN ""
                  ELSE At(s, k)],
              LAMBDA t : t # "")

\* The bytes EF BF BD, the UTF-8 form of U+FFFD, start at position k of b.
IsReplacementAt(b, k) ==
    k >= 1 /\ k + 2 <= Len(b) /\ b[k] = "xEF" /\ b[k + 1] = "xBF" /\ b[k + 2] = "xBD"

InReplacement(b, k) == IsReplacementAt(b, k - 1) \/ IsReplacementAt(b, k - 2)

\* PercentDecode::decode_utf8 succeeds: the bytes are UTF-8.
Utf8Valid(b) ==
    \A k \in 1..Len(b) :
        IsAsciiToken(b[k]) \/ IsReplacementAt(b, k) \/ InReplacement(b, k)

\* String::from_utf8_lossy: an invalid byte becomes U+FFFD.
Utf8Lossy(b) ==
    ConcatStrings([k \in 1..Len(b) |->
                      IF IsAsciiToken(b[k]) THEN b[k]
                      ELSE IF IsReplacementAt(b, k) THEN Replacement
                      ELSE IF InReplacement(b, k) THEN ""
                      ELSE Replacement])

\* percent_decode_str(c).decode_utf8().ok()
DecodeUtf8(s) ==
    Bind(PercentDecodeStr(s),
         LAMBDA b : IF Utf8Valid(b) THEN Some(Utf8Lossy(b)) ELSE None)

PlusToSpaceChar(c) == IF c = "+" THEN " " ELSE c

\* form_urlencoded's decoding of one name or value: '+' is a space, then the
\* percent-decoding, then the lossy UTF-8 decoding.
FormDecode(s) ==
    Bind(MapChars(s, PlusToSpaceChar),
         LAMBDA t : Bind(PercentDecodeStr(t), LAMBDA b : Utf8Lossy(b)))

\* s cut at every occurrence of sep.
RECURSIVE Split(_, _)
Split(s, sep) ==
    Bind(CutBefore(s, {sep}),
         LAMBDA cut : IF cut[2] = "" THEN <<s>>
                      ELSE <<cut[1]>> \o Split(Tail(cut[2]), sep))

\* The name and the value of one piece of a query, undecoded: cut at the first '='.
RawPair(piece) ==
    Bind(CutBefore(piece, {"="}),
         LAMBDA cut : IF cut[2] = "" THEN <<piece, "">> ELSE <<cut[1], Tail(cut[2])>>)

\* The pieces of a query between '&', the empty ones skipped.
RawPairs(q) ==
    Bind(SelectSeq(Split(q, "&"), LAMBDA p : p # ""),
         LAMBDA pieces : [k \in 1..Len(pieces) |-> RawPair(pieces[k])])

\* form_urlencoded::parse
FormParse(q) ==
    Bind(RawPairs(q),
         LAMBDA rp : [k \in 1..Len(rp) |-> <<FormDecode(rp[k][1]), FormDecode(rp[k][2])>>])

FormSafe == CharsOf(UpperAlpha) \cup CharsOf(LowerAlpha) \cup CharsOf(Digits)
                \cup {"*", "-", ".", "_"}

PercentEncodeChar(c) ==
    IF c = Replacement THEN "%EF%BF%BD" ELSE "%" \o HexPair(31 + IndexOf(c, Ascii))

FormEncodeChar(c) ==
    IF c \in FormSafe THEN c ELSE IF c = " " THEN "+" ELSE PercentEncodeChar(c)

\* form_urlencoded::byte_serialize
ByteSerialize(s) == MapChars(s, FormEncodeChar)

\* form_urlencoded::Serializer: append_pair for every pair, then finish.
FormSerialize(pairs) ==
    LET F[k \in 0..Len(pairs)] ==
            IF k = 0 THEN ""
            ELSE F[k - 1] \o (IF k = 1 THEN "" ELSE "&")
                     \o ByteSerialize(pairs[k][1]) \o "=" \o ByteSerialize(pairs[k][2])
    IN  F[Len(pairs)]

\* The url crate's percent-encoding of a component: the characters of set, and
\* those that are not ASCII, are written %HH, the rest is copied.
EncodeSet(s, set) ==
    MapChars(s, LAMBDA c : IF c \in set \/ c = Replacement THEN PercentEncodeChar(c) ELSE c)

(***************************************************************************)
(* url::Url, as far as the cleaner uses it.  The authority is the host     *)
(* alone (no user info, no port) and paths hold no dot segments.           *)
(***************************************************************************)

SchemeChars == CharsOf(UpperAlpha) \cup CharsOf(LowerAlpha) \cup CharsOf(Digits)
                   \cup {"+", "-", "."}

SpecialSchemes == {"http", "https", "ftp", "ws", "wss"}

QueryEncodeSet == {" ", "\"", "#", "<", ">"}

SpecialQueryEncodeSet == QueryEncodeSet \cup {"'"}

FragmentEncodeSet == {" ", "\"", "<", ">", Backtick}

PathEncodeSet == FragmentEncodeSet \cup {"#", "?", "{", "}"}

ForbiddenHostChars == {" ", "#", "%", "<", ">", "?", "[", "\\", "]", "^", "|"}

ParseError ==
    [ok |-> FALSE, scheme |-> "", host |-> None, path |-> "", query |-> None,
     fragment |-> None]

QuerySetOf(scheme) ==
    IF scheme \in SpecialSchemes THEN SpecialQueryEncodeSet ELSE QueryEncodeSet

\* The scheme of s, whose first ':' is at position c, is well formed.
SchemeOk(s, c) ==
    /\ c > 1
    /\ At(s, 1) \in CharsOf(UpperAlpha) \cup CharsOf(LowerAlpha)
    /\ CharsOf(Take(s, c - 1)) \subseteq SchemeChars

\* The host of a URL of the given scheme, from the authority as written.
HostOf(scheme, authority) ==
    IF scheme \in SpecialSchemes THEN ToAsciiLowercase(authority) ELSE authority

HostOk(host) == host # "" /\ CharsOf(host) \cap ForbiddenHostChars = {}

\* The query and the fragment of a URL from what follows its path: tail is
\* empty or starts with '?' or '#'.
QueryAndFragment(scheme, tail) ==
    Bind(CutBefore(tail, {"#"}),
         LAMBDA cut :
            [query |-> IF cut[1] = "" THEN None
                       ELSE Some(EncodeSet(Tail(cut[1]), QuerySetOf(scheme))),
             fragment |-> IF cut[2] = "" THEN None
                          ELSE Some(EncodeSet(Tail(cut[2]), FragmentEncodeSet))])

\* The path, the query and the fragment of a URL from what follows its
\* authority.
PathAndAfter(scheme, host, rest) ==
    Bind(CutBefore(rest, {"?", "#"}),
         LAMBDA cut :
            Bind(QueryAndFragment(scheme, cut[2]),
                 LAMBDA qf :
                    [ok |-> TRUE,
                     scheme |-> scheme,
                     host |-> host,
                     path |-> IF scheme \in SpecialSchemes /\ cut[1] = "" THEN "/"
                              ELSE EncodeSet(cut[1], PathEncodeSet),
                     query |-> qf.query,
                     fragment |-> qf.fragment]))

\* A URL with an authority, from what follows the slashes.
WithAuthority(scheme, r1) ==
    Bind(CutBefore(r1, {"/", "?", "#"}),
         LAMBDA cut :
            Bind(HostOf(scheme, cut[1]),
                 LAMBDA host : IF HostOk(host) THEN PathAndAfter(scheme, Some(host), cut[2])
                               ELSE ParseError))

\* A URL of the given scheme, from what follows the ':'.
AfterScheme(scheme, rest) ==
    IF scheme \in SpecialSchemes THEN WithAuthority(scheme, TrimStartMatches(rest, "/"))
    ELSE IF StartsWith(rest, "//") THEN WithAuthority(scheme, Drop(rest, 3))
    ELSE PathAndAfter(scheme, None, rest)

\* Url::parse: an absolute URL, or an error.
UrlParse(input) ==
    Bind(Trim(input),
         LAMBDA s :
            Bind(IndexOf(":", s),
                 LAMBDA c :
                    IF ~SchemeOk(s, c) THEN ParseError
                    ELSE Bind(ToAsciiLowercase(Take(s, c - 1)),
                              LAMBDA scheme :
                                 Bind(Drop(s, c + 1),
                                      LAMBDA rest : AfterScheme(scheme, rest)))))

\* Url::into_string: the serialization.
UrlString(u) ==
    u.scheme \o ":" \o (IF u.host.some THEN "//" \o u.host.v ELSE "") \o u.path
        \o (IF u.query.some THEN "?" \o u.query.v ELSE "")
        \o (IF u.fragment.some THEN "#" \o u.fragment.v ELSE "")

\* Url::query_pairs: the decoded pairs of the query, in order.
QueryPairs(u) == IF u.query.some THEN FormParse(u.query.v) ELSE <<>>

\* Url::set_query
SetQuery(u, q) ==
    [u EXCEPT !.query = IF q.some THEN Some(EncodeSet(q.v, QuerySetOf(u.scheme)))
                        ELSE None]

\* Url::set_fragment(None)
ClearFragment(u) == [u EXCEPT !.fragment = None]

(***************************************************************************)
(* globset::Glob with the default options: '*' matches any run of          *)
(* characters, '?' any one character, every other character itself, in the *)
(* case given.  A pattern with an unclosed '[' does not compile.  Classes, *)
(* alternates and escapes are not matched.                                 *)
(***************************************************************************)

\* Glob::new(pat).is_ok()
GlobNewOk(pat) ==
    \A k \in 1..Len(pat) :
        At(pat, k) = "[" => \E m \in (k + 2)..Len(pat) : At(pat, m) = "]"

\* Glob::compile_matcher().is_match: M[p, k] says that pat from position p on
\* matches s from position k on.
GlobIsMatch(pat, s) ==
    LET M[p \in 1..(Len(pat) + 1), k \in 1..(Len(s) + 1)] ==
            IF p > Len(pat) THEN k > Len(s)
            ELSE IF At(pat, p) = "*" THEN \E m \in k..(Len(s) + 1) : M[p + 1, m]
            ELSE IF k > Len(s) THEN FALSE
            ELSE IF At(pat, p) = "?" THEN M[p + 1, k + 1]
            ELSE At(pat, p) = At(s, k) /\ M[p + 1, k + 1]
    IN  M[1, 1]

\* GlobSet::is_match over the compiled patterns pats.
GlobSetIsMatch(pats, s) == \E k \in 1..Len(pats) : GlobIsMatch(pats[k], s)

(***************************************************************************)
(* rules.rs                                                                *)
(***************************************************************************)

\* HostRule::default()
DefaultHostRule ==
    [hosts |-> <<>>, unwrap_params |-> <<>>, remove_params |-> <<>>,
     remove_param_globs |-> <<>>, strip_all_params |-> NoBool, keep_params |-> <<>>]

\* RuleSet::default()
DefaultRuleSet ==
    [remove_params |-> <<>>, remove_param_globs |-> <<>>, keep_params |-> <<>>,
     host_rules |-> <<>>]

\* RuleSet::builtin
Builtin ==
    [remove_params |->
        <<"gclid", "gbraid", "wbraid", "fbclid", "igshid", "twclid", "mc_eid",
          "msclkid", "dclid", "icid", "mkt_tok", "vero_id", "vero_conv", "spm",
          "ncid", "epik", "si">>,
     remove_param_globs |->
        <<"utm_*", "pk_*", "mtm_*", "oly_*", "s_cid*", "aff*", "ref*">>,
     keep_params |-> <<>>,
     host_rules |->
        <<[DefaultHostRule EXCEPT !.hosts = <<"*.google.com">>,
                                  !.unwrap_params = <<"url", "q", "u">>],
          [DefaultHostRule EXCEPT !.hosts = <<"*.facebook.com", "*.lm.facebook.com">>,
                                  !.unwrap_params = <<"u">>],
          [DefaultHostRule EXCEPT !.hosts = <<"out.reddit.com">>,
                                  !.unwrap_params = <<"url">>],
          [DefaultHostRule EXCEPT !.hosts = <<"*.youtube.com", "youtu.be">>,
                                  !.unwrap_params = <<"q">>]>>]

\* RuleSet::merge
Merge(self, other) ==
    [remove_params |-> self.remove_params \o other.remove_params,
     remove_param_globs |-> self.remove_param_globs \o other.remove_param_globs,
     keep_params |-> self.keep_params \o other.keep_params,
     host_rules |-> self.host_rules \o other.host_rules]

\* RuleSet::from_path on a file that opens and whose content deserializes: the
\* extension decides.
FromPath(file) ==
    IF ToAsciiLowercase(file.ext) \in {"yaml", "yml", "json"}
    THEN [ok |-> TRUE, rules |-> file.content]
    ELSE [ok |-> FALSE, rules |-> DefaultRuleSet]

\* The concatenation of the sequences of ss.
RECURSIVE Concat(_)
Concat(ss) == IF ss = <<>> THEN <<>> ELSE Head(ss) \o Concat(Tail(ss))

\* CompiledHostRules::new: the aggregate of the matched rules; a host-scoped
\* glob that does not compile is left out.
CompiledHostRulesNew(matched) ==
    [unwrap_params |-> Concat([k \in 1..Len(matched) |-> matched[k].unwrap_params]),
     remove_params |-> Concat([k \in 1..Len(matched) |-> matched[k].remove_params]),
     remove_param_globs |->
        SelectSeq(Concat([k \in 1..Len(matched) |-> matched[k].remove_param_globs]),
                  GlobNewOk),
     strip_all_params |->
        \E k \in 1..Len(matched) :
            matched[k].strip_all_params.some /\ matched[k].strip_all_params.v,
     keep_params |-> Concat([k \in 1..Len(matched) |-> matched[k].keep_params])]

\* The inner loop of matcher_for over one rule's hosts: "err" at a pattern that
\* does not compile, "match" at the first pattern that matches (break).
RECURSIVE ScanHosts(_, _)
ScanHosts(pats, host) ==
    IF pats = <<>> THEN "nomatch"
    ELSE IF ~GlobNewOk(Head(pats)) THEN "err"
    ELSE IF GlobIsMatch(Head(pats), host) THEN "match"
    ELSE ScanHosts(Tail(pats), host)

\* RuleSet::matcher_for
MatcherFor(rs, host) ==
    Bind([k \in 1..Len(rs.host_rules) |-> ScanHosts(rs.host_rules[k].hosts, host)],
         LAMBDA scan :
            IF \E k \in 1..Len(scan) : scan[k] = "err"
            THEN [ok |-> FALSE, view |-> CompiledHostRulesNew(<<>>)]
            ELSE Bind(Concat([k \in 1..Len(scan) |->
                                 IF scan[k] = "match" THEN <<rs.host_rules[k]>> ELSE <<>>]),
                      LAMBDA matched : [ok |-> TRUE, view |-> CompiledHostRulesNew(matched)]))

\* RuleSet::compile_param_globs: the global glob set, or an error.
CompileParamGlobs(rs) ==
    IF \A k \in 1..Len(rs.remove_param_globs) : GlobNewOk(rs.remove_param_globs[k])
    THEN [ok |-> TRUE, globs |-> rs.remove_param_globs]
    ELSE [ok |-> FALSE, globs |-> <<>>]

(***************************************************************************)
(* cleaner.rs                                                              *)
(***************************************************************************)

\* contains_case_insensitive
ContainsCaseInsensitive(list, key) ==
    Bind(ToAsciiLowercase(key),
         LAMBDA kl : \E k \in 1..Len(list) :
                        EqIgnoreAsciiCase(list[k], kl) \/ EqIgnoreAsciiCase(list[k], key))

\* The second loop of try_unwrap: the first candidate that decodes to a URL; a
\* candidate that is not UTF-8 once decoded ends the search (ok()?).
RECURSIVE FirstUnwrapped(_)
FirstUnwrapped(candidates) ==
    IF candidates = <<>> THEN None
    ELSE Bind(Head(candidates),
              LAMBDA c :
                 Bind(DecodeUtf8(c),
                      LAMBDA decoded :
                         IF ~decoded.some THEN None
                         ELSE IF UrlParse(decoded.v).ok THEN Some(decoded.v)
                         ELSE Bind(Tail(candidates), LAMBDA rest : FirstUnwrapped(rest))))

\* The first loop of try_unwrap: the values whose key is an unwrap parameter.
Candidates(url, host_rules) ==
    Bind(SelectSeq(QueryPairs(url),
                   LAMBDA kv : \E p \in 1..Len(host_rules.unwrap_params) :
                                  EqIgnoreAsciiCase(host_rules.unwrap_params[p], kv[1])),
         LAMBDA hit : [k \in 1..Len(hit) |-> hit[k][2]])

\* try_unwrap returning the wrapper instead of the decoded candidate: the
\* recursion of clean would no longer descend.
TryUnwrapWrapper(url, host_rules) ==
    IF host_rules.unwrap_params = <<>> \/ Candidates(url, host_rules) = <<>> THEN None
    ELSE Some(UrlString(url))

\* try_unwrap
TryUnwrap(url, host_rules) ==
    IF host_rules.unwrap_params = <<>> THEN None
    ELSE Bind(Candidates(url, host_rules), LAMBDA candidates : FirstUnwrapped(candidates))

\* The body of the loop with the strip-all test ahead of the keep test.
ClassifyStripFirst(rs, host_rules, global_globs, k) ==
    IF host_rules.strip_all_params THEN "strip_all"
    ELSE IF ContainsCaseInsensitive(rs.keep_params, k)
              \/ ContainsCaseInsensitive(host_rules.keep_params, k)
    THEN "keep"
    ELSE IF ContainsCaseInsensitive(rs.remove_params, k)
              \/ ContainsCaseInsensitive(host_rules.remove_params, k)
    THEN "remove"
    ELSE Bind(ToAsciiLowercase(k),
              LAMBDA k_lower :
                 IF GlobSetIsMatch(global_globs, k_lower)
                       \/ GlobSetIsMatch(host_rules.remove_param_globs, k_lower)
                 THEN "glob"
                 ELSE "retain")

\* The body of the loop of clean_query_params for the key k: the branch taken.
Classify(rs, host_rules, global_globs, k) ==
    IF ContainsCaseInsensitive(rs.keep_params, k)
          \/ ContainsCaseInsensitive(host_rules.keep_params, k)
    THEN "keep"
    ELSE IF host_rules.strip_all_params THEN "strip_all"
    ELSE IF ContainsCaseInsensitive(rs.remove_params, k)
              \/ ContainsCaseInsensitive(host_rules.remove_params, k)
    THEN "remove"
    ELSE Bind(ToAsciiLowercase(k),
              LAMBDA k_lower :
                 IF GlobSetIsMatch(global_globs, k_lower)
                       \/ GlobSetIsMatch(host_rules.remove_param_globs, k_lower)
                 THEN "glob"
                 ELSE "retain")

\* The end of clean_query_params without the test of changed: the query is
\* always serialized again.
WriteQueryAlways(url, new_q, changed) ==
    IF new_q = <<>> THEN SetQuery(url, None)
    ELSE SetQuery(url, Some(FormSerialize(new_q)))

\* The end of clean_query_params: the query is written only if changed.
WriteQuery(url, new_q, changed) ==
    IF changed
    THEN IF new_q = <<>> THEN SetQuery(url, None)
         ELSE SetQuery(url, Some(FormSerialize(new_q)))
    ELSE url

\* The loop of clean_query_params over qpairs, whose keys fall in the branches
\* class: the pairs pushed on new_q, and the flag changed.
FilterPairs(qpairs, class) ==
    [new_q |-> Concat([k \in 1..Len(qpairs) |->
                          IF class[k] \in {"keep", "retain"} THEN <<qpairs[k]>> ELSE <<>>]),
     changed |-> \E k \in 1..Len(qpairs) : class[k] \in {"strip_all", "remove", "glob"}]

\* clean_query_params, lines 46-89, with the host's rules and the global globs
\* compiled.
FilterQuery(rs, host_rules, global_globs, url) ==
    Bind(QueryPairs(url),
         LAMBDA qpairs :
            Bind([k \in 1..Len(qpairs) |->
                     Classify(rs, host_rules, global_globs, qpairs[k][1])],
                 LAMBDA class :
                    Bind(FilterPairs(qpairs, class),
                         LAMBDA f : WriteQuery(url, f.new_q, f.changed))))

\* UrlCleaner::clean_query_params
CleanQueryParams(rs, url) ==
    Bind(MatcherFor(rs, IF url.host.some THEN url.host.v ELSE ""),
         LAMBDA hr :
            IF ~hr.ok THEN [ok |-> FALSE, url |-> url, cause |-> "InvalidHostGlob"]
            ELSE Bind(CompileParamGlobs(rs),
                      LAMBDA gg :
                         IF ~gg.ok
                         THEN [ok |-> FALSE, url |-> url, cause |-> "InvalidParamGlob"]
                         ELSE [ok |-> TRUE,
                               url |-> FilterQuery(rs, hr.view, gg.globs, url),
                               cause |-> ""]))

\* clean, lines 16-25: the trimming, the parse and the fragment heuristic.
Prepare(raw_in) ==
    Bind(Trim(raw_in),
         LAMBDA t1 :
            Bind(TrimStartMatches(t1, "<"),
                 LAMBDA t2 :
                    Bind(TrimEndMatches(t2, ">"),
                         LAMBDA trimmed :
                            Bind(UrlParse(trimmed),
                                 LAMBDA url :
                                    IF url.ok /\ url.fragment.some
                                          /\ Contains(url.fragment.v, "=")
                                    THEN ClearFragment(url) ELSE url))))

\* clean, lines 28-34: the host's rules and the unwrapping.  kind is "err",
\* "unwrap" (val the string clean is called on) or "none".
UnwrapStep(rs, url) ==
    IF ~url.host.some THEN [kind |-> "none", val |-> ""]
    ELSE Bind(MatcherFor(rs, url.host.v),
              LAMBDA hr :
                 IF ~hr.ok THEN [kind |-> "err", val |-> "InvalidHostGlob"]
                 ELSE Bind(TryUnwrap(url, hr.view),
                           LAMBDA t : IF t.some THEN [kind |-> "unwrap", val |-> t.v]
                                      ELSE [kind |-> "none", val |-> ""]))

\* clean, lines 37-38: the filtering of the query.  kind is "err" or "ok".
FilterStep(rs, url) ==
    Bind(CleanQueryParams(rs, url),
         LAMBDA cleaned : IF cleaned.ok THEN [kind |-> "ok", val |-> UrlString(cleaned.url)]
                          ELSE [kind |-> "err", val |-> cleaned.cause])

\* One invocation of UrlCleaner::clean up to its return or its recursive call:
\* kind is "err" (val the cause), "unwrap" (val the string clean is called on)
\* or "ok" (val the cleaned string); url is the URL after the fragment heuristic.
CleanCall(rs, raw_in) ==
    Bind(Prepare(raw_in),
         LAMBDA url :
            IF ~url.ok THEN [kind |-> "err", val |-> "InvalidUrl", url |-> url]
            ELSE Bind(UnwrapStep(rs, url),
                      LAMBDA u :
                         Bind(IF u.kind = "none" THEN FilterStep(rs, url) ELSE u,
                              LAMBDA r : [kind |-> r.kind, val |-> r.val, url |-> url])))

\* UrlCleaner::clean, the recursion followed to its end.
RECURSIVE Clean(_, _)
Clean(rs, raw_in) ==
    Bind(CleanCall(rs, raw_in),
         LAMBDA r : IF r.kind = "unwrap" THEN Clean(rs, r.val) ELSE r)

(***************************************************************************)
(* main.rs: the inputs of a run                                            *)
(***************************************************************************)

\* The most lines a batch run takes from its three sources together.
MaxLines == 2

\* The rule files given with -r.
RulesKeep ==
    [ext |-> "yaml",
     content |->
        [remove_params |-> <<"Session">>,
         remove_param_globs |-> <<"Trk_*">>,
         keep_params |-> <<"UTM_Content", "ref">>,
         host_rules |->
            <<[DefaultHostRule EXCEPT !.hosts = <<"shop.example.com">>,
                                      !.strip_all_params = Some(TRUE),
                                      !.keep_params = <<"id">>],
              [DefaultHostRule EXCEPT !.hosts = <<"*.example.com">>,
                                      !.remove_params = <<"sid">>,
                                      !.remove_param_globs = <<"x_*", "[bad">>,
                                      !.strip_all_params = Some(FALSE)]>>]]

RulesWrap ==
    [ext |-> "json",
     content |->
        [DefaultRuleSet EXCEPT !.host_rules =
            <<[DefaultHostRule EXCEPT !.hosts = <<"l.example.com">>,
                                      !.unwrap_params = <<"ref", "URL">>]>>]]

RulesBadHost ==
    [ext |-> "yml",
     content |->
        [DefaultRuleSet EXCEPT !.host_rules =
            <<[DefaultHostRule EXCEPT !.hosts = <<"*.example.com", "[bad">>,
                                      !.remove_params = <<"sid">>]>>]]

RulesBadGlob ==
    [ext |-> "YAML",
     content |-> [DefaultRuleSet EXCEPT !.remove_param_globs = <<"[bad">>]]

RulesToml == [ext |-> "toml", content |-> DefaultRuleSet]

RuleFiles == {RulesKeep, RulesWrap, RulesBadHost, RulesBadGlob, RulesToml}

\* No -r option.
NoRuleFile == [some |-> FALSE, v |-> [ext |-> "", content |-> DefaultRuleSet]]

\* The input lines of the single-URL runs.
UrlPool ==
    {"https://example.com/?utm_source=a&x=1",
     "https://www.google.com/url?url=https%3A%2F%2Fexample.com%2Fa%3Futm_medium%3D1",
     "not a url",
     "  <https://example.com/#xtor=AL-1>  ",
     "https://example.com/p#section1",
     "https://example.com?a&b=%41+c",
     "https://example.com/?a&UTM_SOURCE=1&b=c+d",
     "https://example.com/?utm_source=1",
     "HTTPS://EXAMPLE.com?X=1",
     "https://example.com/?a=%FF&fbclid=1",
     "mailto:a@b.c?utm_source=1&x=2",
     "https://shop.example.com/?id=7&y=2&UTM_Content=k",
     "https://shop.example.com/?ID=%37&utm_content",
     "https://www.example.com/?sid=1&x_a=2&trk_id=3&Session=4&utm_content=5&ref=6",
     "https://www.example.com/?TRK_ID=3&Ref=6&sId=1",
     "https://www.youtube.com/watch?v=1&q=cats&si=abc",
     "https://www.google.com/url?q=a%3Ab",
     "https://www.google.com/url?q=%25FF&url=https%3A%2F%2Fexample.com%2F",
     "https://www.google.com/url?URL=https%253A%252F%252Fexample.com%252F",
     "https://www.google.com/url?url=https%3A%2F%2Fexample.com%2F%3Fq%3Da%2526b",
     "https://l.example.com/?ref=%25FF&url=https%3A%2F%2Fexample.com%2F",
     "https://l.example.com/?ref=x&url=https%3A%2F%2Fl.example.com%2F%3Furl%3Dhttps%253A%252F%252Fexample.com%252F%2523a%253D1",
     "https://www.google.com/url?q=hello&u=https%3A%2F%2Fout.reddit.com%2F%3Furl%3Dhttps%253A%252F%252Fexample.com%252F%253Fgclid%253D1"}

\* The lines of the batch runs.
BatchPool ==
    {"https://example.com/?utm_source=a&x=1",
     " https://www.google.com/url?url=https%3A%2F%2Fexample.com%2F%3Fb%3D2 ",
     "not a url",
     "   "}

SeqsUpTo(S, n) == UNION {[1..k -> S] : k \in 0..n}

\* The command lines: the rule file, the -u values, the lines of the -f file and
\* the lines of standard input when it is piped.
SingleClis ==
    {[rules |-> r, urls |-> u, file |-> NoLines, stdin |-> NoLines] :
        r \in {NoRuleFile} \cup {Some(f) : f \in RuleFiles},
        u \in SeqsUpTo(UrlPool, 1)}

\* The lines w dealt to the three sources: the first a to -u, the next b - a to
\* the file, the rest to standard input.
Deal(r, w, a, b) ==
    [rules |-> r,
     urls |-> SubSeq(w, 1, a),
     file |-> Some(SubSeq(w, a + 1, b)),
     stdin |-> Some(SubSeq(w, b + 1, Len(w)))]

BatchClis ==
    {Deal(x.r, x.w, x.a, x.b) :
        x \in {y \in [r : {NoRuleFile, Some(RulesToml)},
                      w : SeqsUpTo(BatchPool, MaxLines),
                      a : 0..MaxLines,
                      b : 0..MaxLines] : y.a <= y.b /\ y.b <= Len(y.w)}}

(***************************************************************************)
(* main.rs: the run                                                        *)
(***************************************************************************)

NoFrame == [raw |-> "", kind |-> "none", val |-> "", url |-> ParseError]

\* The record of one invocation of clean on raw_in.
Frame(raw_in, r) == [raw |-> raw_in, kind |-> r.kind, val |-> r.val, url |-> r.url]

\* read_lines_from_file, read_lines_from_stdin: every line trimmed, the empty
\* ones left out.
ReadLines(lines) ==
    SelectSeq([k \in 1..Len(lines) |-> Trim(lines[k])], LAMBDA l : l # "")

\* The collection with standard input read before the file.
CollectInputsStdinFirst(urls, file, stdin) ==
    urls \o (IF stdin.some THEN ReadLines(stdin.v) ELSE <<>>)
         \o (IF file.some THEN ReadLines(file.v) ELSE <<>>)

\* main, lines 88-103: the -u values, then the file's lines, then the lines of
\* standard input.
CollectInputs(urls, file, stdin) ==
    urls \o (IF file.some THEN ReadLines(file.v) ELSE <<>>)
         \o (IF stdin.some THEN ReadLines(stdin.v) ELSE <<>>)

\* write_output: the lines joined by "\n", and a final "\n".
JoinLines(lines) ==
    LET F[k \in 0..Len(lines)] ==
            IF k = 0 THEN ""
            ELSE F[k - 1] \o (IF k = 1 THEN "" ELSE "\n") \o lines[k]
    IN  F[Len(lines)] \o "\n"

StartState ==
    /\ pc = "start"
    /\ rules = DefaultRuleSet
    /\ inputs = <<>>
    /\ i = 0
    /\ outputs = <<>>
    /\ line = ""
    /\ raw = ""
    /\ depth = 0
    /\ last = NoFrame
    /\ stdout = None
    /\ status = "running"

Init == cli \in SingleClis /\ StartState

InitBatch == cli \in BatchClis /\ StartState

\* main, lines 79-86: the built-in rules, merged with the user's rules.
LoadRules ==
    /\ pc = "start"
    /\ cli.rules.some => FromPath(cli.rules.v).ok
    /\ rules' = IF cli.rules.some THEN Merge(Builtin, FromPath(cli.rules.v).rules)
                ELSE Builtin
    /\ pc' = "collect"
    /\ UNCHANGED <<cli, inputs, i, outputs, line, raw, depth, last, stdout, status>>

\* main, lines 81-82: the rule file does not load and main returns the error.
LoadRulesFail ==
    /\ pc = "start"
    /\ cli.rules.some /\ ~FromPath(cli.rules.v).ok
    /\ pc' = "exit"
    /\ status' = "failure"
    /\ UNCHANGED <<cli, rules, inputs, i, outputs, line, raw, depth, last, stdout>>

\* main, lines 88-108, with some input.
Collect ==
    /\ pc = "collect"
    /\ CollectInputs(cli.urls, cli.file, cli.stdin) # <<>>
    /\ inputs' = CollectInputs(cli.urls, cli.file, cli.stdin)
    /\ i' = 1
    /\ pc' = "loop"
    /\ UNCHANGED <<cli, rules, outputs, line, raw, depth, last, stdout, status>>

\* main, lines 105-108: no input, exit status 2.
NoInput ==
    /\ pc = "collect"
    /\ CollectInputs(cli.urls, cli.file, cli.stdin) = <<>>
    /\ pc' = "exit"
    /\ status' = "exit2"
    /\ UNCHANGED <<cli, rules, inputs, i, outputs, line, raw, depth, last, stdout>>

\* main, lines 112-113: the next line is handed to clean.
NextLine ==
    /\ pc = "loop"
    /\ i <= Len(inputs)
    /\ line' = inputs[i]
    /\ raw' = inputs[i]
    /\ depth' = 0
    /\ pc' = "clean"
    /\ UNCHANGED <<cli, rules, inputs, i, outputs, last, stdout, status>>

\* clean, lines 30-32: the URL unwraps and clean calls itself on the target.
CleanUnwrap ==
    /\ pc = "clean"
    /\ \E r \in {CleanCall(rules, raw)} :
           /\ r.kind = "unwrap"
           /\ last' = Frame(raw, r)
           /\ raw' = r.val
    /\ depth' = depth + 1
    /\ UNCHANGED <<cli, pc, rules, inputs, i, outputs, line, stdout, status>>

\* clean returns Ok and main keeps the string (line 114).
CleanOk ==
    /\ pc = "clean"
    /\ \E r \in {CleanCall(rules, raw)} :
           /\ r.kind = "ok"
           /\ last' = Frame(raw, r)
           /\ outputs' = Append(outputs, r.val)
    /\ i' = i + 1
    /\ pc' = "loop"
    /\ UNCHANGED <<cli, rules, inputs, line, raw, depth, stdout, status>>

\* clean returns Err and main skips the line (lines 115-120).
CleanErr ==
    /\ pc = "clean"
    /\ \E r \in {CleanCall(rules, raw)} :
           /\ r.kind = "err"
           /\ last' = Frame(raw, r)
    /\ i' = i + 1
    /\ pc' = "loop"
    /\ UNCHANGED <<cli, rules, inputs, outputs, line, raw, depth, stdout, status>>

\* main, lines 124-126: the output is written and main returns Ok.
WriteOutput ==
    /\ pc = "loop"
    /\ i > Len(inputs)
    /\ stdout' = Some(JoinLines(outputs))
    /\ status' = "success"
    /\ pc' = "exit"
    /\ UNCHANGED <<cli, rules, inputs, i, outputs, line, raw, depth, last>>

Next ==
    \/ LoadRules
    \/ LoadRulesFail
    \/ Collect
    \/ NoInput
    \/ NextLine
    \/ CleanUnwrap
    \/ CleanOk
    \/ CleanErr
    \/ WriteOutput

\* Runs on one -u value.
Spec == Init /\ [][Next]_vars

\* Runs on up to MaxLines lines from the three sources.
SpecBatch == InitBatch /\ [][Next]_vars

\* main is sequential code: a step that can be taken is taken.
FairSpec == Init /\ [][Next]_vars /\ WF_vars(Next)

(***************************************************************************)
(* Properties.  last is the record of the latest invocation of clean: its  *)
(* argument (raw), the URL after the fragment heuristic (url) and how it   *)
(* ended (kind, val).                                                      *)
(***************************************************************************)

\* The host that clean and clean_query_params look the rules up for.
LastHost == IF last.url.host.some THEN last.url.host.v ELSE ""

\* The aggregated host view of the latest URL.
LastView == MatcherFor(rules, LastHost).view

\* The members of a list, as a set.
Members(list) == {list[k] : k \in 1..Len(list)}

\* C1: the parameter with this key is to survive the filtering.
C1_Survives(key) ==
    LET kept == \E e \in Members(rules.keep_params) \cup Members(LastView.keep_params) :
                    ToAsciiLowercase(e) = ToAsciiLowercase(key)
        removed == \E e \in Members(rules.remove_params) \cup Members(LastView.remove_params) :
                       ToAsciiLowercase(e) = ToAsciiLowercase(key)
        globbed == \E g \in Members(rules.remove_param_globs)
                               \cup Members(LastView.remove_param_globs) :
                       GlobIsMatch(g, ToAsciiLowercase(key))
    IN  kept \/ (~LastView.strip_all_params /\ ~removed /\ ~globbed)

\* C1: when clean returns after filtering a URL, the parameters of its output
\* are exactly the parameters of that URL, in order, whose key is in a keep list
\* or, failing that, is hit by no strip-all, no remove entry and no remove glob.
C1_QueryFiltering ==
    last.kind = "ok" =>
        QueryPairs(UrlParse(last.val))
            = SelectSeq(QueryPairs(last.url), LAMBDA kv : C1_Survives(kv[1]))

\* C1: a filtered URL of a strip-all host, one of whose parameters matches a
\* global remove glob and survives by a keep entry while another is dropped.
C1_Witness ==
    /\ last.kind = "ok"
    /\ LastView.strip_all_params
    /\ \E kv \in Members(QueryPairs(UrlParse(last.val))) :
           /\ GlobSetIsMatch(rules.remove_param_globs, ToAsciiLowercase(kv[1]))
           /\ ContainsCaseInsensitive(rules.keep_params, kv[1])
    /\ Len(QueryPairs(UrlParse(last.val))) < Len(QueryPairs(last.url))

\* C2: the candidates of the latest URL: the values of the parameters whose key
\* is an unwrap parameter, in query order.
C2_Candidates ==
    LET qp == QueryPairs(last.url)
        hit == SelectSeq(qp, LAMBDA kv : \E p \in Members(LastView.unwrap_params) :
                                            ToAsciiLowercase(p) = ToAsciiLowercase(kv[1]))
    IN  [k \in 1..Len(hit) |-> hit[k][2]]

\* C2: the candidate decodes to an absolute URL.
C2_Valid(c) == DecodeUtf8(c).some /\ UrlParse(DecodeUtf8(c).v).ok

\* C2: an invocation of clean on a URL whose host view has unwrap parameters
\* calls clean on the first candidate that decodes to an absolute URL, whatever
\* the earlier candidates are, and filters the URL only if there is none.
C2_UnwrapSelection ==
    (last.kind \in {"ok", "unwrap"} /\ last.url.host.some /\ LastView.unwrap_params # <<>>) =>
        LET cands == C2_Candidates
            valid == {k \in 1..Len(cands) : C2_Valid(cands[k])}
        IN  IF valid = {} THEN last.kind = "ok"
            ELSE last.kind = "unwrap" /\ last.val = DecodeUtf8(cands[SetMin(valid)]).v

\* C3: the string clean calls itself on is the value of an unwrap parameter as
\* written in the query of the URL, percent-decoded once (with or without '+'
\* read as a space), and not decoded a second time.
C3_DecodesOnce ==
    last.kind = "unwrap" =>
        \E rp \in Members(RawPairs(last.url.query.v)) :
            /\ \E p \in Members(LastView.unwrap_params) :
                   ToAsciiLowercase(p) = ToAsciiLowercase(FormDecode(rp[1]))
            /\ last.val \in {Utf8Lossy(PercentDecodeStr(rp[2])), FormDecode(rp[2])}

\* Some pattern of the hosts of some host rule does not compile.
MalformedHostPattern ==
    \E hr \in Members(rules.host_rules) : \E pat \in Members(hr.hosts) : ~GlobNewOk(pat)

\* Some global remove_param_globs pattern does not compile.
MalformedParamGlob == \E pat \in Members(rules.remove_param_globs) : ~GlobNewOk(pat)

\* C4: with a malformed host pattern in the rules, clean returns an error on
\* every input that parses as an absolute URL.
C4_MalformedHostFatal ==
    (MalformedHostPattern /\ last.kind # "none" /\ last.url.ok) => last.kind = "err"

\* C5: with a malformed host pattern or global glob in the merged rules, the run
\* hands no item to clean, writes no output and does not end in success; and
\* the only error that skips an item is InvalidUrl.
C5_GlobErrorsFatal ==
    /\ (MalformedHostPattern \/ MalformedParamGlob) =>
           pc # "clean" /\ last.kind = "none" /\ ~stdout.some /\ status # "success"
    /\ last.kind = "err" => last.val = "InvalidUrl"

\* C6: the cleaned strings of the lines of a sequence on which clean succeeds.
C6_Cleaned(lines) ==
    LET r == [k \in 1..Len(lines) |-> Clean(rules, lines[k])]
        ok == SelectSeq(r, LAMBDA x : x.kind = "ok")
    IN  [k \in 1..Len(ok) |-> ok[k].val]

\* C6: the output is the sequence of clean(x) over the -u values, then the file's
\* lines, then standard input's lines, for the x on which clean succeeds, in
\* order and once each; during the run the outputs are a prefix of it, and
\* a run that has inputs ends in success whatever lines fail.
C6_BatchOrder ==
    LET want == C6_Cleaned(cli.urls \o cli.file.v \o cli.stdin.v)
    IN  /\ pc \in {"loop", "clean"} =>
               /\ Len(outputs) <= Len(want)
               /\ outputs = SubSeq(want, 1, Len(outputs))
        /\ status = "success" => stdout = Some(JoinLines(want))
        /\ (pc = "exit" /\ inputs # <<>>) => status = "success"

\* C6: a finished run whose first line failed, whose second line, from another
\* source, was cleaned, and whose output holds just that one.
C6_Witness ==
    /\ status = "success"
    /\ Len(inputs) = 2
    /\ Len(cli.urls) = 1
    /\ Clean(rules, inputs[1]).kind = "err"
    /\ Clean(rules, inputs[2]).kind = "ok"
    /\ outputs = <<Clean(rules, inputs[2]).val>>

\* C7: clean applied to an output of clean succeeds and returns it unchanged.
C7_Idempotent ==
    last.kind = "ok" =>
        Clean(rules, last.val).kind = "ok" /\ Clean(rules, last.val).val = last.val

\* C8: the rule set rs with every parameter name and glob in lower case.
C8_LowerList(list) == [k \in 1..Len(list) |-> ToAsciiLowercase(list[k])]

C8_LowerRules(rs) ==
    [rs EXCEPT !.remove_params = C8_LowerList(@),
               !.remove_param_globs = C8_LowerList(@),
               !.keep_params = C8_LowerList(@)]

C8_LowerView(view) ==
    [view EXCEPT !.unwrap_params = C8_LowerList(@),
                 !.remove_params = C8_LowerList(@),
                 !.remove_param_globs = C8_LowerList(@),
                 !.keep_params = C8_LowerList(@)]

\* C8: the parameter with this key is dropped under these rules.
C8_Dropped(rs, view, key) ==
    Classify(rs, view, rs.remove_param_globs, key) \in {"strip_all", "remove", "glob"}

\* C8: the parameter with this key is an unwrap candidate under this view.
C8_Unwraps(view, key) ==
    \E p \in Members(view.unwrap_params) : EqIgnoreAsciiCase(p, key)

\* C8: for every parameter of a URL that clean handles, the decisions to drop it
\* and to unwrap it are those taken with the key and every rule entry (names and
\* globs, global and host-scoped) put in lower case.
C8_CaseInsensitive ==
    (last.kind \in {"ok", "unwrap"} /\ MatcherFor(rules, LastHost).ok /\ ~MalformedParamGlob) =>
        \A kv \in Members(QueryPairs(last.url)) :
            /\ C8_Dropped(rules, LastView, kv[1])
                   = C8_Dropped(C8_LowerRules(rules), C8_LowerView(LastView),
                                ToAsciiLowercase(kv[1]))
            /\ C8_Unwraps(LastView, kv[1])
                   = C8_Unwraps(C8_LowerView(LastView), ToAsciiLowercase(kv[1]))

\* C9: the parameters of the latest URL that the filter drops.
C9_Dropped ==
    {k \in 1..Len(QueryPairs(last.url)) :
        Classify(rules, LastView, rules.remove_param_globs, QueryPairs(last.url)[k][1])
            \in {"strip_all", "remove", "glob"}}

\* C9: when clean returns after filtering a URL, the query of its output is that
\* of the URL, byte for byte, unless a parameter was dropped; and when all the
\* parameters were dropped the output has no query and no '?'.
C9_NoOpPreservation ==
    last.kind = "ok" =>
        /\ C9_Dropped = {} => UrlParse(last.val).query = last.url.query
        /\ UrlParse(last.val).query # last.url.query => C9_Dropped # {}
        /\ (C9_Dropped # {} /\ Cardinality(C9_Dropped) = Len(QueryPairs(last.url))) =>
               ~UrlParse(last.val).query.some /\ ~Contains(last.val, "?")

\* C9: a filtered URL all of whose parameters are retained by keep entries, and
\* whose query is not what the serializer would write.
C9_Witness ==
    /\ last.kind = "ok"
    /\ last.url.query.some
    /\ QueryPairs(last.url) # <<>>
    /\ \A kv \in Members(QueryPairs(last.url)) :
           Classify(rules, LastView, rules.remove_param_globs, kv[1]) = "keep"
    /\ last.url.query.v # FormSerialize(QueryPairs(last.url))
    /\ Contains(last.val, "?")

\* C10: every recursive call of clean is on a string strictly shorter than the
\* one the call received, the nesting depth stays below the length of the input
\* line, and every call of clean returns.
C10_Terminates ==
    /\ [][(pc = "clean" /\ pc' = "clean") => ByteLen(raw') < ByteLen(raw)]_vars
    /\ [](depth <= ByteLen(line))
    /\ [](pc = "clean" => <>(pc = "loop"))

\* C10: clean has called itself twice for one input line.
C10_Witness == pc = "clean" /\ depth = 2 /\ ByteLen(raw) < ByteLen(line)

=============================================================================
